---- MODULE Spec2Model ----
(***************************************************************************)
(* WikiPhilosophy: the graph analytics of distance_to_philosophy.py        *)
(* (reverse index, batch-wise breadth-first distances to "Philosophy")     *)
(* and compute_stats.py (terminating nodes, heat graph).                   *)
(*                                                                         *)
(* Spec runs either entry point, again and again; SpecMain runs the query  *)
(* loop of distance_to_philosophy.main; SpecRerun runs the entry points    *)
(* on files with a fixed key order and keeps the first results; SpecTasks  *)
(* runs compute_distances as a task beside the heat passes; SpecDistances  *)
(* runs the index and the distances to their end under fairness; SpecPath, *)
(* SpecMenu and SpecRace run get_to_philosophy.py, menu.view_results and   *)
(* race_to_philosophy.race.                                                *)
(*                                                                         *)
(* Article titles are the numbers 1..MaxNodes; title 1 is "Philosophy"     *)
(* and 0 is the empty string that marks an article without links.          *)
(* A Python dict or defaultdict is a function whose DOMAIN is the set of   *)
(* keys it holds, so that a defaultdict read that inserts a key shows.     *)
(***************************************************************************)
EXTENDS Integers, Sequences, FiniteSets, TLC

MaxNodes == 4

Philosophy == 1

NoLink == 0

Titles == 1..MaxNodes

\* every dict of edges over the titles: some titles are keys, each key maps
\* to a title (a key or not) or to the empty string
ForwardMaps == UNION {[K -> Titles \cup {NoLink}] : K \in SUBSET Titles}

\* the titles of the forward maps of the runs that carry more state: the
\* runs on files with a fixed key order and the runs with two tasks
MaxSmallNodes == 3

\* view_results: the longest list shown and the most results on a page
MaxResults == 5

MaxPerPage == 3

\* race: the most racers, and the most turns of the loop that are followed
MaxRacers == 2

MaxTurns == 6

SmallMaps ==
  UNION {[K -> (1..MaxSmallNodes) \cup {NoLink}] : K \in SUBSET (1..MaxSmallNodes)}

EmptyDict == <<>>

\* the value of an Optional[Dict] parameter: None, or a dict
NoneArg == [given |-> FALSE, map |-> EmptyDict]

SomeArg(m) == [given |-> TRUE, map |-> m]

\* Python truthiness of an Optional[Dict]: None and the empty dict are falsy
Truthy(a) == a.given /\ DOMAIN a.map # {}

\* the orders in which Python can iterate over sets drawn from S
SetOrders(S) ==
  {p \in [1..Cardinality(S) -> S] : \A i, j \in 1..Cardinality(S) : i # j => p[i] # p[j]}

\* list(S) under the iteration order ord
InOrder(S, ord) == SelectSeq(ord, LAMBDA x : x \in S)

Range(s) == {s[i] : i \in 1..Len(s)}

\* defaultdict.__getitem__: a missing key is inserted with the default
Touch(d, k, default) == IF k \in DOMAIN d THEN d ELSE d @@ (k :> default)

\* dict.__setitem__
Put(d, k, v) == IF k \in DOMAIN d THEN [d EXCEPT ![k] = v] ELSE d @@ (k :> v)

\* a read that does not insert (d.get(k, default))
Get(d, k, default) == IF k \in DOMAIN d THEN d[k] ELSE default

VARIABLES
  prog,               \* which entry point runs: "distance", "heat", "main", or
                      \* "both" for the heat and distance passes as two tasks
  pc,                 \* position in the running entry point
  arg,                \* the edges argument handed to get_reverse_edges / compute_distances
  cache,              \* cache/edges/*.json as get_edges() reads it
  loads,              \* calls of get_edges() in this run
  terminating_file,   \* cache/terminating_nodes.json
  edges,              \* the local `edges`
  reverse_edges,      \* the defaultdict(set) of predecessors
  distances,          \* defaultdict(lambda: -1)
  q,                  \* deque of batches
  seen,               \* compute_distances: expanded articles
  terminating_nodes,
  seen_nodes,
  todo,               \* keys of edges the classifier loop has not reached yet
  pending,            \* terminating nodes the current for loop has not reached yet
  hmap,               \* defaultdict(int)
  main_article,       \* main: the local `article` of the query loop
  task,               \* position of compute_distances when it runs as a task
                      \* beside the heat passes
  keyorder,           \* the order of the keys in the cache files, where it is
                      \* fixed; <<>> leaves it open
  first,              \* what the first run on these files returned
  pages,              \* get_to_philosophy.main: titles of the cached articles
  target,             \* get_path_to_philosophy: the title asked for
  target_path,        \* get_path_to_philosophy: the local `path`
  next_page_title,
  results,            \* view_results: the list shown
  can_select,
  results_per_page,
  page,
  totalPages,
  selected,           \* view_results: the element returned, NoArticle for None
  race_articles,      \* race: the parameter `articles`
  racers,
  racer_path,         \* race: the local `path`, one list per racer
  has_looped

vars == <<prog, pc, arg, cache, loads, terminating_file, edges, reverse_edges,
          distances, q, seen, terminating_nodes, seen_nodes, todo, pending, hmap,
          main_article, task, keyorder, first,
          pages, target, target_path, next_page_title,
          results, can_select, results_per_page, page, totalPages, selected,
          race_articles, racers, racer_path, has_looped>>

distVars == <<distances, q, seen>>

heatVars == <<terminating_nodes, seen_nodes, todo, pending, hmap>>

\* the locals of get_to_philosophy.main and get_path_to_philosophy
pathVars == <<pages, target, target_path, next_page_title>>

\* the locals of menu.view_results
menuVars == <<results, can_select, results_per_page, page, totalPages, selected>>

\* the locals of race_to_philosophy.race
raceVars == <<race_articles, racers, racer_path, has_looped>>

toolVars == <<pathVars, menuVars, raceVars>>

\* the state of main's query loop, of a second task and of earlier runs, and
\* of the other entry points of the repository
sessionVars == <<main_article, task, keyorder, first, toolVars>>

\* None, where an article is expected
NoArticle == -1

\* race: "(no articles linked)", the place of a racer whose article has no links
NoArticlesLinked == -2

\* no run has returned yet
NoRun == [done |-> FALSE, terminating_nodes |-> {}, hmap |-> EmptyDict,
          distances |-> EmptyDict]

----------------------------------------------------------------------------
(* get_edges and get_reverse_edges *)

\* get_edges(): the dict stored in the cache files. The files are read when
\* first needed and do not change afterwards; a call that is not made reads
\* nothing.
CacheContents(c, called) ==
  IF called /\ ~c.read THEN ForwardMaps ELSE {c.map}

\* the index with reverse_edges[v] = {k} in place of reverse_edges[v].add(k)
RECURSIVE AddReverseOverwrite(_, _, _)
AddReverseOverwrite(e, keys, rev) ==
  IF keys = {} THEN rev
  ELSE LET k == CHOOSE x \in keys : TRUE
       IN AddReverseOverwrite(e, keys \ {k}, Put(rev, e[k], {k}))

\* for k, v in edges.items(): reverse_edges[v].add(k)
RECURSIVE AddReverse(_, _, _)
AddReverse(e, keys, rev) ==
  IF keys = {} THEN rev
  ELSE LET k == CHOOSE x \in keys : TRUE
           r1 == Touch(rev, e[k], {})
       IN AddReverse(e, keys \ {k}, [r1 EXCEPT ![e[k]] = @ \cup {k}])

\* get_reverse_edges(a) when get_edges() returns loaded: the dict it works
\* on, the index it returns, and whether it called get_edges()
ReverseEdgesOf(a, loaded) ==
  LET e == IF Truthy(a) THEN a.map ELSE loaded
  IN [edges |-> e,
      reverse_edges |-> AddReverse(e, DOMAIN e, EmptyDict),
      loaded |-> ~Truthy(a)]

----------------------------------------------------------------------------
(* compute_distances *)

\* the increment on a defaultdict(int), whose default is 0
IncrementFromZero(d, article) ==
  LET d1 == Touch(d, article, 0) IN [d1 EXCEPT ![article] = @ + 1]

\* distances[article] += 1
Increment(d, article) ==
  LET d1 == Touch(d, article, -1) IN [d1 EXCEPT ![article] = @ + 1]

\* the pass without the test of seen: if reverse_edges[article]:
RECURSIVE ScanBatchUnseen(_, _, _, _)
ScanBatchUnseen(articles, i, st, ord) ==
  IF i > Len(articles) THEN st
  ELSE LET article == articles[i]
           d1 == Increment(st.distances, article)
           r1 == Touch(st.reverse_edges, article, {})
           expand == r1[article] # {}
       IN ScanBatchUnseen(articles, i + 1,
                          [distances |-> d1,
                           reverse_edges |-> r1,
                           seen |-> IF expand THEN st.seen \cup {article} ELSE st.seen,
                           next_articles |-> IF expand
                                             THEN st.next_articles \o InOrder(r1[article], ord)
                                             ELSE st.next_articles],
                          ord)

\* lines 43-47: one pass over the batch
RECURSIVE ScanBatch(_, _, _, _)
ScanBatch(articles, i, st, ord) ==
  IF i > Len(articles) THEN st
  ELSE LET article == articles[i]
           d1 == Increment(st.distances, article)
           r1 == Touch(st.reverse_edges, article, {})
           expand == r1[article] # {} /\ article \notin st.seen
       IN ScanBatch(articles, i + 1,
                    [distances |-> d1,
                     reverse_edges |-> r1,
                     seen |-> IF expand THEN st.seen \cup {article} ELSE st.seen,
                     next_articles |-> IF expand
                                       THEN st.next_articles \o InOrder(r1[article], ord)
                                       ELSE st.next_articles],
                    ord)

\* the defaults set to zero: for a in next_articles: distances[a] = 0
RECURSIVE SetDefaultsToZero(_, _, _, _)
SetDefaultsToZero(next_articles, i, d, article) ==
  IF i > Len(next_articles) THEN d
  ELSE SetDefaultsToZero(next_articles, i + 1, Put(d, next_articles[i], 0), article)

\* lines 48-49: for a in next_articles: distances[a] = distances[article],
\* where article is still the last article of the batch
RECURSIVE SetDefaults(_, _, _, _)
SetDefaults(next_articles, i, d, article) ==
  IF i > Len(next_articles) THEN d
  ELSE SetDefaults(next_articles, i + 1,
                   Put(d, next_articles[i], Touch(d, article, -1)[article]), article)

\* the articles the sets reverse_edges[article] of a batch hold
Predecessors(articles, rev) == UNION {Get(rev, a, {}) : a \in Range(articles)}

\* lines 40-50: one turn of the while loop
Batch(articles, d, rev, sn, ord) ==
  LET st == ScanBatch(articles, 1,
                      [distances |-> d, reverse_edges |-> rev, seen |-> sn,
                       next_articles |-> <<>>], ord)
      article == articles[Len(articles)]
  IN [st EXCEPT !.distances = SetDefaults(st.next_articles, 1, st.distances, article)]

----------------------------------------------------------------------------
(* compute_heat_graph: terminating nodes *)

\* lines 83-88: extend the path until it holds a duplicate, the last node
\* has no links, or the appended node was already met in this walk;
\* edges[path[-1]] raises KeyError when path[-1] is not a key
RECURSIVE Walk(_, _, _)
Walk(e, path, nodes_seen_this_batch) ==
  IF Len(path) # Cardinality(Range(path))
  THEN [path |-> path, batch |-> nodes_seen_this_batch, raised |-> FALSE]
  ELSE IF path[Len(path)] \notin DOMAIN e
  THEN [path |-> path, batch |-> nodes_seen_this_batch, raised |-> TRUE]
  ELSE LET next_node == e[path[Len(path)]]
       IN IF next_node = NoLink
          THEN [path |-> path, batch |-> nodes_seen_this_batch, raised |-> FALSE]
          ELSE IF next_node \in nodes_seen_this_batch
          THEN [path |-> Append(path, next_node), batch |-> nodes_seen_this_batch,
                raised |-> FALSE]
          ELSE Walk(e, Append(path, next_node), nodes_seen_this_batch \cup {next_node})

\* the pop loop without the test of terminating_nodes:
\* while next_node not in seen_nodes and len(path) > 1
RECURSIVE PopUnlessSeen(_, _, _)
PopUnlessSeen(path, terminating, sn) ==
  IF path[Len(path)] \notin sn /\ Len(path) > 1
  THEN PopUnlessSeen(SubSeq(path, 1, Len(path) - 1),
                     terminating \cup {path[Len(path)]}, sn)
  ELSE terminating

\* lines 89-93: pop the path into terminating_nodes until its last node is
\* terminating or seen, or one node is left
RECURSIVE PopTerminating(_, _, _)
PopTerminating(path, terminating, sn) ==
  IF path[Len(path)] \notin terminating /\ path[Len(path)] \notin sn /\ Len(path) > 1
  THEN PopTerminating(SubSeq(path, 1, Len(path) - 1),
                      terminating \cup {path[Len(path)]}, sn)
  ELSE terminating

\* lines 81-96: the walk from one article
Classify(e, article, terminating, sn) ==
  LET w == Walk(e, <<article>>, {})
  IN [raised |-> w.raised,
      terminating_nodes |-> IF w.raised THEN terminating
                            ELSE PopTerminating(w.path, terminating, sn),
      seen_nodes |-> IF w.raised THEN sn ELSE sn \cup w.batch]

----------------------------------------------------------------------------
(* compute_heat_graph: heat *)

\* the update without the child itself: hmap[node] += hmap[child]
AddChildValueOnly(h, node, child) ==
  LET h1 == Touch(h, node, 0)
      h2 == Touch(h1, child, 0)
  IN [h2 EXCEPT ![node] = h1[node] + h2[child]]

\* hmap[node] += hmap[child] + 1 on a defaultdict(int): both keys are read,
\* so both are inserted
AddChild(h, node, child) ==
  LET h1 == Touch(h, node, 0)
      h2 == Touch(h1, child, 0)
  IN [h2 EXCEPT ![node] = h1[node] + h2[child] + 1]

\* visit(node), lines 108-113. st holds hmap and reverse_edges. The children
\* are a set of distinct articles with disjoint subtrees and the updates are
\* sums, so the order of the for loop does not show in the result.
RECURSIVE visit(_, _, _), VisitChildren(_, _, _, _)
visit(node, terminating, st) ==
  IF node \in terminating THEN st
  ELSE LET r == Touch(st.reverse_edges, node, {})
       IN VisitChildren(node, r[node], terminating, [st EXCEPT !.reverse_edges = r])

VisitChildren(node, children, terminating, st) ==
  IF children = {} THEN st
  ELSE LET child == CHOOSE c \in children : TRUE
           s1 == visit(child, terminating, st)
       IN VisitChildren(node, children \ {child}, terminating,
                        [s1 EXCEPT !.hmap = AddChild(s1.hmap, node, child)])

\* the loop that takes the children out of the index as it visits them:
\* while reverse_edges[node]: visit(reverse_edges[node].pop())
RECURSIVE VisitAllPopping(_, _, _)
VisitAllPopping(children, terminating, st) ==
  IF children = {} THEN st
  ELSE LET child == CHOOSE c \in children : TRUE
           s1 == visit(child, terminating, st)
       IN VisitAllPopping(children \ {child}, terminating,
                          [s1 EXCEPT !.reverse_edges =
                             [k \in DOMAIN s1.reverse_edges |->
                                s1.reverse_edges[k] \ {child}]])

\* the calls of visit that are open at once when visit(node) runs, lines
\* 108-113: its own, and below it the deepest of the calls for its children
RECURSIVE VisitDepth(_, _, _)
VisitDepth(node, terminating, rev) ==
  IF node \in terminating THEN 1
  ELSE LET below == {VisitDepth(child, terminating, rev) : child \in Get(rev, node, {})}
       IN 1 + (IF below = {} THEN 0 ELSE CHOOSE m \in below : \A k \in below : k <= m)

\* lines 121-122: for child_node in reverse_edges[node]: visit(child_node)
RECURSIVE VisitAll(_, _, _)
VisitAll(children, terminating, st) ==
  IF children = {} THEN st
  ELSE LET child == CHOOSE c \in children : TRUE
       IN VisitAll(children \ {child}, terminating, visit(child, terminating, st))

\* lines 128-130: the node's own value from its children outside the cycles
RECURSIVE OwnValue(_, _, _, _)
OwnValue(node, children, terminating, h) ==
  IF children = {} THEN h
  ELSE LET child == CHOOSE c \in children : TRUE
       IN OwnValue(node, children \ {child}, terminating,
                   IF child \in terminating THEN h ELSE AddChild(h, node, child))

\* lines 134-136: while next_node != node and next_node == "": add the
\* node's value to next_node and move on along the edges
RECURSIVE Share(_, _, _, _)
Share(e, node, next_node, h) ==
  IF next_node # node /\ next_node = NoLink
  THEN LET h1 == Touch(h, next_node, 0)
           h2 == Touch(h1, node, 0)
           h3 == [h2 EXCEPT ![next_node] = h1[next_node] + h2[node]]
       IN IF next_node \notin DOMAIN e
          THEN [hmap |-> h3, raised |-> TRUE]
          ELSE Share(e, node, e[next_node], h3)
  ELSE [hmap |-> h, raised |-> FALSE]

\* lines 127-136: one turn of the loop over the nodes in cycles
CycleNode(e, node, terminating, rev, h) ==
  LET r == Touch(rev, node, {})
      h1 == OwnValue(node, r[node], terminating, h)
  IN IF node \notin DOMAIN e
     THEN [reverse_edges |-> r, hmap |-> h1, raised |-> TRUE]
     ELSE IF e[node] = NoLink
     THEN [reverse_edges |-> r, hmap |-> h1, raised |-> FALSE]
     ELSE LET s == Share(e, node, e[node], h1)
          IN [reverse_edges |-> r, hmap |-> s.hmap, raised |-> s.raised]

\* the increment for the nodes that have an entry only:
\* if node in hmap: hmap[node] += 1
RECURSIVE AddOneToPresent(_, _)
AddOneToPresent(nodes, h) ==
  IF nodes = {} THEN h
  ELSE LET node == CHOOSE n \in nodes : TRUE
       IN AddOneToPresent(nodes \ {node},
                          IF node \in DOMAIN h THEN [h EXCEPT ![node] = @ + 1] ELSE h)

\* lines 138-139: for node in terminating_nodes: hmap[node] += 1
RECURSIVE AddOne(_, _)
AddOne(nodes, h) ==
  IF nodes = {} THEN h
  ELSE LET node == CHOOSE n \in nodes : TRUE
           h1 == Touch(h, node, 0)
       IN AddOne(nodes \ {node}, [h1 EXCEPT ![node] = @ + 1])

----------------------------------------------------------------------------
\* an entry point about to run for the first time
\* get_path_to_philosophy has not been called
PathIdle ==
  /\ pages = {}
  /\ target = NoArticle
  /\ target_path = <<>>
  /\ next_page_title = NoArticle

\* view_results has not been called
MenuIdle ==
  /\ results = <<>>
  /\ can_select = FALSE
  /\ results_per_page = 1
  /\ page = 1
  /\ totalPages = 0
  /\ selected = NoArticle

\* race has not been called
RaceIdle ==
  /\ race_articles = <<>>
  /\ racers = <<>>
  /\ racer_path = <<>>
  /\ has_looped = <<>>

FirstRun ==
  /\ PathIdle
  /\ MenuIdle
  /\ RaceIdle
  /\ pc = "start"
  /\ loads = 0
  /\ terminating_file = [present |-> FALSE, nodes |-> {}]
  /\ edges = EmptyDict
  /\ reverse_edges = EmptyDict
  /\ distances = EmptyDict
  /\ q = <<>>
  /\ seen = {}
  /\ terminating_nodes = {}
  /\ seen_nodes = {}
  /\ todo = {}
  /\ pending = {}
  /\ hmap = EmptyDict
  /\ main_article = NoArticle
  /\ task = "idle"
  /\ first = NoRun

Init ==
  /\ prog \in {"distance", "heat"}
  /\ arg \in IF prog = "distance"
             THEN {NoneArg} \cup {SomeArg(m) : m \in ForwardMaps}
             ELSE {NoneArg}
  /\ cache = [read |-> FALSE, map |-> EmptyDict]
  /\ keyorder = <<>>
  /\ FirstRun

\* reverse_edges = get_reverse_edges(edges), called with the argument
GetReverseEdges ==
  /\ prog = "distance"
  /\ pc = "start"
  /\ \E loaded \in CacheContents(cache, ~Truthy(arg)) :
       LET r == ReverseEdgesOf(arg, loaded)
       IN /\ edges' = r.edges
          /\ reverse_edges' = r.reverse_edges
          /\ cache' = IF r.loaded THEN [read |-> TRUE, map |-> loaded] ELSE cache
          /\ loads' = IF r.loaded THEN loads + 1 ELSE loads
  /\ pc' = "indexed"
  /\ UNCHANGED <<sessionVars, prog, arg, terminating_file, distVars, heatVars>>

\* compute_distances(edges, reverse_edges), lines 30-38
ComputeDistances ==
  /\ prog \in {"distance", "main"}
  /\ pc = "indexed"
  /\ \E loaded \in CacheContents(cache, ~Truthy(arg)) :
       LET e == IF Truthy(arg) THEN arg.map ELSE loaded
           again == DOMAIN reverse_edges = {}
           r == ReverseEdgesOf(SomeArg(e), loaded)
           n == (IF Truthy(arg) THEN 0 ELSE 1) + (IF again /\ r.loaded THEN 1 ELSE 0)
       IN /\ edges' = e
          /\ reverse_edges' = IF again THEN r.reverse_edges ELSE reverse_edges
          /\ cache' = IF n > 0 THEN [read |-> TRUE, map |-> loaded] ELSE cache
          /\ loads' = loads + n
  /\ distances' = EmptyDict
  /\ q' = <<(<<Philosophy>>)>>
  /\ seen' = {}
  /\ pc' = "bfs"
  /\ UNCHANGED <<sessionVars, prog, arg, terminating_file, heatVars>>

\* lines 40-54: the head of q is taken off and worked through
BatchTurn ==
  \E ord \in SetOrders(Predecessors(Head(q), reverse_edges)) :
    LET b == Batch(Head(q), distances, reverse_edges, seen, ord)
    IN /\ distances' = b.distances
       /\ reverse_edges' = b.reverse_edges
       /\ seen' = b.seen
       /\ q' = IF b.next_articles # <<>>
               THEN Append(Tail(q), b.next_articles)
               ELSE Tail(q)

\* one turn of `while q`, lines 39-54
NextBatch ==
  /\ pc = "bfs"
  /\ q # <<>>
  /\ BatchTurn
  /\ UNCHANGED <<sessionVars, prog, pc, arg, cache, loads, terminating_file, edges, heatVars>>

\* lines 56-57: the summary line divides by len(edges), then return distances
ReturnDistances ==
  /\ pc = "bfs"
  /\ q = <<>>
  /\ pc' = IF DOMAIN edges = {} THEN "ZeroDivisionError" ELSE "done"
  /\ UNCHANGED <<sessionVars, prog, arg, cache, loads, terminating_file, edges, reverse_edges,
                 distVars, heatVars>>

\* compute_heat_graph, lines 57-72: the edges are read from the cache
HeatStart ==
  /\ prog \in {"heat", "both"}
  /\ pc = "start"
  /\ \E loaded \in CacheContents(cache, TRUE) :
       LET r == ReverseEdgesOf(SomeArg(loaded), loaded)
       IN /\ edges' = loaded
          /\ reverse_edges' = r.reverse_edges
          /\ cache' = [read |-> TRUE, map |-> loaded]
          /\ loads' = loads + 1 + (IF r.loaded THEN 1 ELSE 0)
  /\ hmap' = EmptyDict
  /\ terminating_nodes' = {}
  /\ seen_nodes' = {}
  /\ pc' = "ask"
  /\ UNCHANGED <<sessionVars, prog, arg, terminating_file, distVars, todo, pending>>

\* lines 73-76: the answer 'n'
ComputeManually ==
  /\ pc = "ask"
  /\ todo' = DOMAIN edges
  /\ pc' = "classify"
  /\ UNCHANGED <<sessionVars, prog, arg, cache, loads, terminating_file, edges, reverse_edges,
                 distVars, terminating_nodes, seen_nodes, pending, hmap>>

\* lines 73, 101-104: any other answer reads the terminating nodes an
\* earlier run has written
UseCachedNodes ==
  /\ pc = "ask"
  /\ IF terminating_file.present
     THEN /\ terminating_nodes' = terminating_file.nodes
          /\ pending' = terminating_file.nodes
          /\ pc' = "tree"
     ELSE /\ pc' = "FileNotFoundError"
          /\ UNCHANGED <<terminating_nodes, pending>>
  /\ UNCHANGED <<sessionVars, prog, arg, cache, loads, terminating_file, edges, reverse_edges,
                 distVars, seen_nodes, todo, hmap>>

\* the keys the loop over edges.keys() can reach next: the first key left in
\* the order of the files, any key left where that order is open
NextKeys(td, ko) ==
  IF ko = <<>> THEN td
  ELSE {a \in td : \A i \in 1..Len(ko) : ko[i] = a => \A j \in 1..(i - 1) : ko[j] \notin td}

\* lines 77-96: one turn of `for article in edges.keys()`; the dict may
\* hold its keys in any order
ClassifyArticle ==
  /\ pc = "classify"
  /\ \E article \in NextKeys(todo, keyorder) :
       /\ todo' = todo \ {article}
       /\ IF article \in seen_nodes
          THEN UNCHANGED <<terminating_nodes, seen_nodes, pc>>
          ELSE LET c == Classify(edges, article, terminating_nodes, seen_nodes)
               IN /\ terminating_nodes' = c.terminating_nodes
                  /\ seen_nodes' = c.seen_nodes
                  /\ pc' = IF c.raised THEN "KeyError" ELSE pc
  /\ UNCHANGED <<sessionVars, prog, arg, cache, loads, terminating_file, edges, reverse_edges,
                 distVars, pending, hmap>>

\* the write with the wrong set: json.dump({'nodes': list(seen_nodes)}, ...)
WriteSeenNodes ==
  /\ pc = "classify"
  /\ todo = {}
  /\ terminating_file' = [present |-> TRUE, nodes |-> seen_nodes]
  /\ pending' = terminating_nodes
  /\ pc' = "tree"
  /\ UNCHANGED <<sessionVars, prog, arg, cache, loads, edges, reverse_edges, distVars,
                 terminating_nodes, seen_nodes, todo, hmap>>

\* lines 97-100: the loop is over, the terminating nodes are written out
WriteTerminatingNodes ==
  /\ pc = "classify"
  /\ todo = {}
  /\ terminating_file' = [present |-> TRUE, nodes |-> terminating_nodes]
  /\ pending' = terminating_nodes
  /\ pc' = "tree"
  /\ UNCHANGED <<sessionVars, prog, arg, cache, loads, edges, reverse_edges, distVars,
                 terminating_nodes, seen_nodes, todo, hmap>>

\* lines 118-122: one turn of the visiting loop
VisitNode ==
  /\ pc = "tree"
  /\ \E node \in pending :
       LET r == Touch(reverse_edges, node, {})
           st == VisitAll(r[node], terminating_nodes, [hmap |-> hmap, reverse_edges |-> r])
       IN /\ hmap' = st.hmap
          /\ reverse_edges' = st.reverse_edges
          /\ pending' = pending \ {node}
  /\ UNCHANGED <<sessionVars, prog, pc, arg, cache, loads, terminating_file, edges, distVars,
                 terminating_nodes, seen_nodes, todo>>

\* line 123: the visiting loop is over
VisitingDone ==
  /\ pc = "tree"
  /\ pending = {}
  /\ pending' = terminating_nodes
  /\ pc' = "cycle"
  /\ UNCHANGED <<sessionVars, prog, arg, cache, loads, terminating_file, edges, reverse_edges,
                 distVars, terminating_nodes, seen_nodes, todo, hmap>>

\* lines 126-136: one turn of the loop over the nodes in cycles
VisitCycleNode ==
  /\ pc = "cycle"
  /\ \E node \in pending :
       LET c == CycleNode(edges, node, terminating_nodes, reverse_edges, hmap)
       IN /\ hmap' = c.hmap
          /\ reverse_edges' = c.reverse_edges
          /\ pending' = pending \ {node}
          /\ pc' = IF c.raised THEN "KeyError" ELSE pc
  /\ UNCHANGED <<sessionVars, prog, arg, cache, loads, terminating_file, edges, distVars,
                 terminating_nodes, seen_nodes, todo>>

\* lines 137-141: add one to each terminating node and return hmap
ReturnHeat ==
  /\ pc = "cycle"
  /\ pending = {}
  /\ hmap' = AddOne(terminating_nodes, hmap)
  /\ pc' = "done"
  /\ UNCHANGED <<sessionVars, prog, arg, cache, loads, terminating_file, edges, reverse_edges,
                 distVars, terminating_nodes, seen_nodes, todo, pending>>

\* a new process: nothing is loaded and every local is empty
NewProcess ==
  /\ pc' = "start"
  /\ loads' = 0
  /\ edges' = EmptyDict
  /\ reverse_edges' = EmptyDict
  /\ distances' = EmptyDict
  /\ q' = <<>>
  /\ seen' = {}
  /\ terminating_nodes' = {}
  /\ seen_nodes' = {}
  /\ todo' = {}
  /\ pending' = {}
  /\ hmap' = EmptyDict

\* the entry point has returned and is started again, on the files as they
\* are now and with the same argument
RunAgain ==
  /\ pc = "done"
  /\ NewProcess
  /\ UNCHANGED <<sessionVars, prog, arg, cache, terminating_file>>

\* the same restart, with what the first run returned kept for comparison
Rerun ==
  /\ pc = "done"
  /\ NewProcess
  /\ first' = IF first.done THEN first
              ELSE [done |-> TRUE, terminating_nodes |-> terminating_nodes,
                    hmap |-> hmap, distances |-> distances]
  /\ UNCHANGED <<toolVars, main_article, task, keyorder, prog, arg, cache, terminating_file>>

\* the runs of an entry point on cache files whose contents and key order
\* are fixed from the start
InitRerun ==
  /\ prog \in {"distance", "heat"}
  /\ arg \in IF prog = "distance"
             THEN {NoneArg} \cup {SomeArg(m) : m \in SmallMaps}
             ELSE {NoneArg}
  /\ cache \in IF Truthy(arg)
               THEN {[read |-> FALSE, map |-> EmptyDict]}
               ELSE {[read |-> TRUE, map |-> m] : m \in SmallMaps}
  /\ keyorder \in IF prog = "heat" THEN SetOrders(DOMAIN cache.map) ELSE {<<>>}
  /\ FirstRun

NextRerun ==
  \/ GetReverseEdges
  \/ ComputeDistances
  \/ NextBatch
  \/ ReturnDistances
  \/ HeatStart
  \/ ComputeManually
  \/ UseCachedNodes
  \/ ClassifyArticle
  \/ WriteTerminatingNodes
  \/ VisitNode
  \/ VisitingDone
  \/ VisitCycleNode
  \/ ReturnHeat
  \/ Rerun

SpecRerun == InitRerun /\ [][NextRerun]_vars

----------------------------------------------------------------------------
(* distance_to_philosophy.main *)

\* lines 70-71: edges = get_edges(); reverse_edges = get_reverse_edges(edges).
\* The edges become the argument of both calls; get_reverse_edges loads
\* them once more when they are empty.
MainStart ==
  /\ prog = "main"
  /\ pc = "start"
  /\ \E loaded \in CacheContents(cache, TRUE) :
       LET r == ReverseEdgesOf(SomeArg(loaded), loaded)
       IN /\ arg' = SomeArg(loaded)
          /\ edges' = r.edges
          /\ reverse_edges' = r.reverse_edges
          /\ cache' = [read |-> TRUE, map |-> loaded]
          /\ loads' = loads + 1 + (IF r.loaded THEN 1 ELSE 0)
  /\ pc' = "indexed"
  /\ UNCHANGED <<sessionVars, prog, terminating_file, distVars, heatVars>>

\* lines 72-75: compute_distances has returned, the query loop begins
EnterQueryLoop ==
  /\ prog = "main"
  /\ pc = "done"
  /\ pc' = "menu"
  /\ UNCHANGED <<sessionVars, prog, arg, cache, loads, terminating_file, edges,
                 reverse_edges, distVars, heatVars>>

\* lines 76, 102-107: a title is entered; one that is not a key of
\* distances is turned down
QueryTitle ==
  /\ pc = "menu"
  /\ \E user_input \in Titles :
       IF user_input \notin DOMAIN distances
       THEN UNCHANGED <<pc, main_article>>
       ELSE /\ main_article' = user_input
            /\ pc' = "article"
  /\ UNCHANGED <<toolVars, task, keyorder, first, prog, arg, cache, loads, terminating_file,
                 edges, reverse_edges, distVars, heatVars>>

\* lines 87-101, 106-107: #num or $num is entered; an article at that
\* distance is drawn or picked, or the pick is given up
QueryDistance ==
  /\ pc = "menu"
  /\ \E num \in 0..MaxNodes, pick \in BOOLEAN :
       LET options == {a \in DOMAIN distances : distances[a] = num}
       IN IF options = {}
          THEN UNCHANGED <<pc, main_article>>
          ELSE \E user_input \in options \cup (IF pick THEN {NoArticle} ELSE {}) :
                 IF user_input = NoArticle
                 THEN UNCHANGED <<pc, main_article>>
                 ELSE /\ main_article' = user_input
                      /\ pc' = "article"
  /\ UNCHANGED <<toolVars, task, keyorder, first, prog, arg, cache, loads, terminating_file,
                 edges, reverse_edges, distVars, heatVars>>

\* lines 83-85: q is entered
Quit ==
  /\ pc = "menu"
  /\ pc' = "quit"
  /\ UNCHANGED <<sessionVars, prog, arg, cache, loads, terminating_file, edges,
                 reverse_edges, distVars, heatVars>>

\* lines 118-120: f moves to edges[article] and prints distances[article],
\* a read of the defaultdict
MoveForward ==
  /\ pc = "article"
  /\ IF main_article \notin DOMAIN edges
     THEN /\ pc' = "KeyError"
          /\ UNCHANGED <<main_article, distances>>
     ELSE /\ main_article' = edges[main_article]
          /\ distances' = Touch(distances, edges[main_article], -1)
          /\ UNCHANGED pc
  /\ UNCHANGED <<toolVars, task, keyorder, first, prog, arg, cache, loads, terminating_file,
                 edges, reverse_edges, q, seen, heatVars>>

\* lines 121-132: b draws and p picks an article that links to this one;
\* a pick may be given up, which leaves None in article
MoveBack ==
  /\ pc = "article"
  /\ LET r == Touch(reverse_edges, main_article, {})
     IN /\ reverse_edges' = r
        /\ IF r[main_article] = {}
           THEN UNCHANGED <<main_article, distances>>
           ELSE \E pick \in BOOLEAN :
                  \E a \in r[main_article] \cup (IF pick THEN {NoArticle} ELSE {}) :
                    /\ main_article' = a
                    /\ distances' = IF a = NoArticle THEN distances
                                    ELSE Touch(distances, a, -1)
  /\ UNCHANGED <<toolVars, task, keyorder, first, prog, pc, arg, cache, loads, terminating_file,
                 edges, q, seen, heatVars>>

\* lines 133-135: any other input returns to the title prompt
LeaveArticle ==
  /\ pc = "article"
  /\ pc' = "menu"
  /\ UNCHANGED <<sessionVars, prog, arg, cache, loads, terminating_file, edges,
                 reverse_edges, distVars, heatVars>>

InitMain ==
  /\ prog = "main"
  /\ arg = NoneArg
  /\ cache = [read |-> FALSE, map |-> EmptyDict]
  /\ keyorder = <<>>
  /\ FirstRun

NextMain ==
  \/ MainStart
  \/ ComputeDistances
  \/ NextBatch
  \/ ReturnDistances
  \/ EnterQueryLoop
  \/ QueryTitle
  \/ QueryDistance
  \/ Quit
  \/ MoveForward
  \/ MoveBack
  \/ LeaveArticle

SpecMain == InitMain /\ [][NextMain]_vars

----------------------------------------------------------------------------
(* compute_distances as a task beside the heat passes of compute_heat_graph, *)
(* both on the edges and the reverse index compute_heat_graph has built      *)

\* compute_distances(edges, reverse_edges), lines 30-38, called once the
\* terminating nodes are there; empty edges are loaded again, by it and by
\* the get_reverse_edges it then calls
StartDistanceTask ==
  /\ prog = "both"
  /\ pc \in {"tree", "cycle", "done"}
  /\ task = "idle"
  /\ loads' = loads + (IF DOMAIN edges = {} THEN 2 ELSE 0)
  /\ distances' = EmptyDict
  /\ q' = <<(<<Philosophy>>)>>
  /\ seen' = {}
  /\ task' = "bfs"
  /\ UNCHANGED <<toolVars, main_article, keyorder, first, prog, pc, arg, cache, terminating_file,
                 edges, reverse_edges, heatVars>>

\* one turn of `while q`, lines 39-54, in the task
TaskBatch ==
  /\ task = "bfs"
  /\ q # <<>>
  /\ BatchTurn
  /\ UNCHANGED <<sessionVars, prog, pc, arg, cache, loads, terminating_file, edges,
                 heatVars>>

\* lines 56-57 in the task
TaskReturn ==
  /\ task = "bfs"
  /\ q = <<>>
  /\ task' = IF DOMAIN edges = {} THEN "ZeroDivisionError" ELSE "done"
  /\ UNCHANGED <<toolVars, main_article, keyorder, first, prog, pc, arg, cache, loads,
                 terminating_file, edges, reverse_edges, distVars, heatVars>>

InitTasks ==
  /\ prog = "both"
  /\ arg = NoneArg
  /\ cache \in {[read |-> TRUE, map |-> m] : m \in SmallMaps}
  /\ keyorder = <<>>
  /\ FirstRun

NextTasks ==
  \/ HeatStart
  \/ ComputeManually
  \/ ClassifyArticle
  \/ WriteTerminatingNodes
  \/ VisitNode
  \/ VisitingDone
  \/ VisitCycleNode
  \/ ReturnHeat
  \/ StartDistanceTask
  \/ TaskBatch
  \/ TaskReturn

SpecTasks == InitTasks /\ [][NextTasks]_vars

----------------------------------------------------------------------------
(* get_reverse_edges and compute_distances, run to their end *)

InitDistances ==
  /\ prog = "distance"
  /\ arg \in {NoneArg} \cup {SomeArg(m) : m \in SmallMaps}
  /\ cache \in IF Truthy(arg)
               THEN {[read |-> FALSE, map |-> EmptyDict]}
               ELSE {[read |-> TRUE, map |-> m] : m \in SmallMaps}
  /\ keyorder = <<>>
  /\ FirstRun

NextDistances ==
  \/ GetReverseEdges
  \/ ComputeDistances
  \/ NextBatch
  \/ ReturnDistances

\* the interpreter goes on with the next statement as long as there is one
SpecDistances == InitDistances /\ [][NextDistances]_vars /\ WF_vars(NextDistances)

----------------------------------------------------------------------------
(* get_to_philosophy.py: main and get_path_to_philosophy *)

\* main, lines 84-85: articles = get_articles(); edges = get_edges()
PathMain ==
  /\ prog = "path"
  /\ pc = "start"
  /\ pages' \in SUBSET (1..MaxSmallNodes)
  /\ edges' = cache.map
  /\ loads' = loads + 1
  /\ pc' = "ask"
  /\ UNCHANGED <<target, target_path, next_page_title, menuVars, raceVars,
                 main_article, task, keyorder, first, prog, arg, cache,
                 terminating_file, reverse_edges, distVars, heatVars>>

\* main, lines 88-92: a title is typed in and get_path_to_philosophy is called
EnterTarget ==
  /\ prog = "path"
  /\ pc = "ask"
  /\ target' \in 1..MaxSmallNodes
  /\ target_path' = <<>>
  /\ next_page_title' = NoArticle
  /\ pc' = "called"
  /\ UNCHANGED <<pages, menuVars, raceVars, main_article, task, keyorder, first,
                 prog, arg, cache, loads, terminating_file, edges, reverse_edges,
                 distVars, heatVars>>

\* main, lines 89-91: q is typed in
QuitPath ==
  /\ prog = "path"
  /\ pc = "ask"
  /\ pc' = "quit"
  /\ UNCHANGED <<sessionVars, prog, arg, cache, loads, terminating_file, edges,
                 reverse_edges, distVars, heatVars>>

\* get_path_to_philosophy, lines 65-70
PathBegin ==
  /\ prog = "path"
  /\ pc = "called"
  /\ IF target \notin pages
     THEN /\ pc' = "None"
          /\ UNCHANGED <<target_path, next_page_title>>
     ELSE /\ target_path' = <<target>>
          /\ IF target \notin DOMAIN edges
             THEN /\ pc' = "KeyError"
                  /\ UNCHANGED next_page_title
             ELSE IF edges[target] = NoLink
                  THEN /\ pc' = "returned"
                       /\ UNCHANGED next_page_title
                  ELSE /\ next_page_title' = edges[target]
                       /\ pc' = "walk"
  /\ UNCHANGED <<pages, target, menuVars, raceVars, main_article, task, keyorder,
                 first, prog, arg, cache, loads, terminating_file, edges,
                 reverse_edges, distVars, heatVars>>

\* line 71: the test of the while loop
PathGoesOn ==
  next_page_title # Philosophy /\ next_page_title \notin Range(target_path)

\* get_path_to_philosophy, lines 71-75: one turn of the while loop
PathAppend ==
  /\ prog = "path"
  /\ pc = "walk"
  /\ PathGoesOn
  /\ target_path' = Append(target_path, next_page_title)
  /\ IF next_page_title \notin DOMAIN edges
     THEN /\ pc' = "KeyError"
          /\ UNCHANGED next_page_title
     ELSE IF edges[next_page_title] = NoLink
          THEN /\ pc' = "returned"
               /\ UNCHANGED next_page_title
          ELSE /\ next_page_title' = edges[next_page_title]
               /\ UNCHANGED pc
  /\ UNCHANGED <<pages, target, menuVars, raceVars, main_article, task, keyorder,
                 first, prog, arg, cache, loads, terminating_file, edges,
                 reverse_edges, distVars, heatVars>>

\* get_path_to_philosophy, lines 76-77
PathFinish ==
  /\ prog = "path"
  /\ pc = "walk"
  /\ ~PathGoesOn
  /\ target_path' = Append(target_path, next_page_title)
  /\ pc' = "returned"
  /\ UNCHANGED <<pages, target, next_page_title, menuVars, raceVars, main_article,
                 task, keyorder, first, prog, arg, cache, loads, terminating_file,
                 edges, reverse_edges, distVars, heatVars>>

\* main, lines 93-100: the answer is printed and the next title is asked for
PrintPath ==
  /\ prog = "path"
  /\ pc \in {"returned", "None"}
  /\ pc' = "ask"
  /\ UNCHANGED <<sessionVars, prog, arg, cache, loads, terminating_file, edges,
                 reverse_edges, distVars, heatVars>>

InitPath ==
  /\ prog = "path"
  /\ arg = NoneArg
  /\ cache \in {[read |-> TRUE, map |-> m] : m \in SmallMaps}
  /\ keyorder = <<>>
  /\ FirstRun

NextPath ==
  \/ PathMain
  \/ EnterTarget
  \/ QuitPath
  \/ PathBegin
  \/ PathAppend
  \/ PathFinish
  \/ PrintPath

SpecPath == InitPath /\ [][NextPath]_vars

----------------------------------------------------------------------------
(* menu.py: view_results, called as start_race calls it *)

\* race_to_philosophy.py, line 131: view_results(my_options, can_select=True,
\* results_per_page=20); distance_to_philosophy.py, lines 98 and 128. The
\* list holds the options 1..n, page has its default 1.
CallViewResults ==
  /\ prog = "menu"
  /\ pc = "start"
  /\ \E n \in 0..MaxResults : results' = [i \in 1..n |-> i]
  /\ can_select' \in BOOLEAN
  /\ results_per_page' \in 1..MaxPerPage
  /\ page' = 1
  /\ pc' = "called"
  /\ UNCHANGED <<totalPages, selected, pathVars, raceVars, main_article, task,
                 keyorder, first, prog, arg, cache, loads, terminating_file,
                 edges, reverse_edges, distVars, heatVars>>

\* lines 39-40: int(len(results) / results_per_page), one more for a rest
TotalPages(n, per_page) ==
  (n \div per_page) + (IF n % per_page # 0 THEN 1 ELSE 0)

\* view_results, lines 37-41: totalPages is computed and the loop is entered
ViewResults ==
  /\ prog = "menu"
  /\ pc = "called"
  /\ totalPages' = TotalPages(Len(results), results_per_page)
  /\ pc' = "menu"
  /\ UNCHANGED <<results, can_select, results_per_page, page, selected, pathVars,
                 raceVars, main_article, task, keyorder, first, prog, arg, cache,
                 loads, terminating_file, edges, reverse_edges, distVars, heatVars>>

\* lines 83-85: cmd is "p"
PreviousPage ==
  /\ prog = "menu"
  /\ pc = "menu"
  /\ page' = IF page > 1 THEN page - 1 ELSE page
  /\ UNCHANGED <<results, can_select, results_per_page, totalPages, selected,
                 pathVars, raceVars, main_article, task, keyorder, first, prog,
                 pc, arg, cache, loads, terminating_file, edges, reverse_edges,
                 distVars, heatVars>>

\* lines 86-88: cmd is "n"
NextPage ==
  /\ prog = "menu"
  /\ pc = "menu"
  /\ page' = IF page + 1 <= totalPages THEN page + 1 ELSE page
  /\ UNCHANGED <<results, can_select, results_per_page, totalPages, selected,
                 pathVars, raceVars, main_article, task, keyorder, first, prog,
                 pc, arg, cache, loads, terminating_file, edges, reverse_edges,
                 distVars, heatVars>>

\* lines 77-81: cmd is the number of a result and can_select is set
SelectResult ==
  /\ prog = "menu"
  /\ pc = "menu"
  /\ can_select
  /\ \E cmd \in 1..Len(results) : selected' = results[cmd]
  /\ pc' = "returned"
  /\ UNCHANGED <<results, can_select, results_per_page, page, totalPages,
                 pathVars, raceVars, main_article, task, keyorder, first, prog,
                 arg, cache, loads, terminating_file, edges, reverse_edges,
                 distVars, heatVars>>

\* lines 82 and 89: any other cmd ends the loop and None is returned
CloseView ==
  /\ prog = "menu"
  /\ pc = "menu"
  /\ selected' = NoArticle
  /\ pc' = "returned"
  /\ UNCHANGED <<results, can_select, results_per_page, page, totalPages,
                 pathVars, raceVars, main_article, task, keyorder, first, prog,
                 arg, cache, loads, terminating_file, edges, reverse_edges,
                 distVars, heatVars>>

\* race_to_philosophy.py, lines 130-134: the option chosen is taken from the
\* list and the rest is shown again
SelectAgain ==
  /\ prog = "menu"
  /\ pc = "returned"
  /\ selected # NoArticle
  /\ results' = SelectSeq(results, LAMBDA x : x # selected)
  /\ page' = 1
  /\ selected' = NoArticle
  /\ pc' = "called"
  /\ UNCHANGED <<can_select, results_per_page, totalPages, pathVars, raceVars,
                 main_article, task, keyorder, first, prog, arg, cache, loads,
                 terminating_file, edges, reverse_edges, distVars, heatVars>>

InitMenu ==
  /\ prog = "menu"
  /\ arg = NoneArg
  /\ cache = [read |-> FALSE, map |-> EmptyDict]
  /\ keyorder = <<>>
  /\ FirstRun

NextMenu ==
  \/ CallViewResults
  \/ ViewResults
  \/ PreviousPage
  \/ NextPage
  \/ SelectResult
  \/ CloseView
  \/ SelectAgain

SpecMenu == InitMenu /\ [][NextMenu]_vars

----------------------------------------------------------------------------
(* race_to_philosophy.py: race, called as start_race calls it *)

\* the lists of at most MaxRacers titles
RacerLists == UNION {[1..n -> 1..MaxSmallNodes] : n \in 0..MaxRacers}

\* start_race, lines 95 and 155, and race, lines 37-44: the edges are read
\* from the cache files, once more by line 37 if the map is empty, and every
\* racer starts at its article with an empty path
RaceStart ==
  /\ prog = "race"
  /\ pc = "start"
  /\ edges' = cache.map
  /\ loads' = loads + (IF DOMAIN cache.map = {} THEN 2 ELSE 1)
  /\ race_articles' \in RacerLists
  /\ racers' = race_articles'
  /\ racer_path' = [i \in DOMAIN race_articles' |-> <<>>]
  /\ has_looped' = [i \in DOMAIN race_articles' |-> FALSE]
  /\ pc' = "race"
  /\ UNCHANGED <<pathVars, menuVars, main_article, task, keyorder, first, prog,
                 arg, cache, terminating_file, reverse_edges, distVars, heatVars>>

\* line 60: "Philosophy" not in racers and not all(has_looped)
RaceGoesOn ==
  /\ Philosophy \notin Range(racers)
  /\ \E i \in DOMAIN has_looped : ~has_looped[i]

\* lines 62-69: the for loop from racer i on; a racer whose article is not a
\* key of edges ends it with KeyError, the racers before it having moved
RECURSIVE MoveRacers(_, _, _)
MoveRacers(e, i, st) ==
  IF i > Len(st.racers) THEN st
  ELSE LET racer == st.racers[i]
       IN IF racer = NoArticlesLinked THEN MoveRacers(e, i + 1, st)
          ELSE IF racer \notin DOMAIN e THEN [st EXCEPT !.raised = TRUE]
          ELSE LET p == Append(st.path[i], racer)
               IN MoveRacers(e, i + 1,
                    [st EXCEPT !.racers[i] = IF e[racer] = NoLink
                                             THEN NoArticlesLinked
                                             ELSE e[racer],
                               !.path[i] = p,
                               !.has_looped[i] = Len(p) # Cardinality(Range(p))])

\* race, lines 60-78: one turn of the while loop
RaceTurn ==
  /\ prog = "race"
  /\ pc = "race"
  /\ RaceGoesOn
  /\ \A i \in DOMAIN racer_path : Len(racer_path[i]) < MaxTurns
  /\ LET st == MoveRacers(edges, 1, [racers |-> racers, path |-> racer_path,
                                     has_looped |-> has_looped, raised |-> FALSE])
     IN /\ racers' = st.racers
        /\ racer_path' = st.path
        /\ has_looped' = st.has_looped
        /\ pc' = IF st.raised THEN "KeyError" ELSE pc
  /\ UNCHANGED <<race_articles, pathVars, menuVars, main_article, task, keyorder,
                 first, prog, arg, cache, loads, terminating_file, edges,
                 reverse_edges, distVars, heatVars>>

\* lines 82-89: the articles whose racers are at Philosophy
Winners ==
  SelectSeq([i \in DOMAIN racers |-> IF racers[i] = Philosophy
                                     THEN race_articles[i] ELSE NoArticle],
            LAMBDA x : x # NoArticle)

\* race, lines 80-89: the loop has ended; None without a racer at Philosophy
RaceEnd ==
  /\ prog = "race"
  /\ pc = "race"
  /\ ~RaceGoesOn
  /\ pc' = IF Philosophy \notin Range(racers) THEN "None" ELSE "returned"
  /\ UNCHANGED <<sessionVars, prog, arg, cache, loads, terminating_file, edges,
                 reverse_edges, distVars, heatVars>>

InitRace ==
  /\ prog = "race"
  /\ arg = NoneArg
  /\ cache \in {[read |-> TRUE, map |-> m] : m \in SmallMaps}
  /\ keyorder = <<>>
  /\ FirstRun

NextRace ==
  \/ RaceStart
  \/ RaceTurn
  \/ RaceEnd

SpecRace == InitRace /\ [][NextRace]_vars

----------------------------------------------------------------------------
Next ==
  \/ GetReverseEdges
  \/ ComputeDistances
  \/ NextBatch
  \/ ReturnDistances
  \/ HeatStart
  \/ ComputeManually
  \/ UseCachedNodes
  \/ ClassifyArticle
  \/ WriteTerminatingNodes
  \/ VisitNode
  \/ VisitingDone
  \/ VisitCycleNode
  \/ ReturnHeat
  \/ RunAgain

Spec == Init /\ [][Next]_vars

----------------------------------------------------------------------------
(* The graph the claims speak of, read off a forward map f *)

\* the article k forward hops after n; an article without a successor (no
\* links, or not a key) leads to NoLink
RECURSIVE After(_, _, _)
After(f, n, k) ==
  IF k = 0 THEN n
  ELSE LET m == After(f, n, k - 1)
       IN IF m \in DOMAIN f THEN f[m] ELSE NoLink

HopCounts(f, n) == {k \in 0..MaxNodes : After(f, n, k) = Philosophy}

HasPath(f, n) == HopCounts(f, n) # {}

Hops(f, n) == CHOOSE k \in HopCounts(f, n) : \A j \in HopCounts(f, n) : k <= j

CycleOf(f, n) == {After(f, n, k) : k \in 0..MaxNodes}

CycleMembers(f) == {n \in Titles : \E k \in 1..MaxNodes : After(f, n, k) = n}

DeadEnds(f) == {n \in DOMAIN f : f[n] = NoLink}

Dangling(f) == {n \in DOMAIN f : f[n] # NoLink /\ f[n] \notin DOMAIN f}

PredecessorsOf(f, n) == {p \in DOMAIN f : f[p] = n}

\* the sum of val[x] over the x in S
RECURSIVE Sum(_, _)
Sum(S, val) ==
  IF S = {} THEN 0
  ELSE LET x == CHOOSE y \in S : TRUE IN val[x] + Sum(S \ {x}, val)

DistancesReturned == prog = "distance" /\ pc = "done"

ClassificationDone == prog = "heat" /\ pc = "classify" /\ todo = {}

HeatReturned == prog = "heat" /\ pc = "done"

\* the forward map get_reverse_edges was called on: the argument, or the
\* loaded edges when no argument was given
GivenForward == IF arg.given THEN arg.map ELSE cache.map

----------------------------------------------------------------------------
(* Claims *)

\* C1: when compute_distances returns, every article with a forward path
\* to Philosophy (Philosophy included, also when it lies on a cycle) has as
\* its distance the least number of forward hops to Philosophy, and no
\* other article has a distance of 0 or more.
C1_ShortestDistances ==
  DistancesReturned =>
    \A n \in Titles \cup DOMAIN distances :
      IF HasPath(edges, n)
      THEN n \in DOMAIN distances /\ distances[n] = Hops(edges, n)
      ELSE n \notin DOMAIN distances \/ distances[n] < 0

\* C2: in the map compute_distances returns, the distance of Philosophy is
\* 0, also when the path from Philosophy leads back to Philosophy.
C2_TargetAtZero ==
  DistancesReturned => Get(distances, Philosophy, -1) = 0

\* C3: after the classification every key of the forward map without a
\* successor is a terminating node.
C3_DeadEndsTerminal ==
  ClassificationDone => DeadEnds(edges) \subseteq terminating_nodes

\* C4: after the classification the terminating nodes are members of cycles
\* or articles without a successor, and nothing else.
C4_OnlyCyclesAndDeadEnds ==
  ClassificationDone => terminating_nodes \subseteq CycleMembers(edges) \cup DeadEnds(edges)

\* C5: a forward map with a successor that is not a key is classified
\* without an error being raised.
C5_DanglingNotAnError ==
  (prog = "heat" /\ Dangling(edges) # {}) => pc # "KeyError"

\* what the predecessors of m outside the terminating nodes contribute to
\* m: heat + 1 each
FeederContribution(m) ==
  Sum(PredecessorsOf(edges, m) \ terminating_nodes,
      [p \in DOMAIN edges |-> Get(hmap, p, 0) + 1])

\* C6: in the heat map returned, the heat of every member of a cycle is at
\* least the sum, over all members of its cycle, of what the member's
\* predecessors outside the terminating nodes contribute (heat + 1 each).
C6_CycleSharesFeeders ==
  HeatReturned =>
    \A c \in CycleMembers(edges) :
      Get(hmap, c, 0) >= Sum(CycleOf(edges, c), [m \in Titles |-> FeederContribution(m)])

\* the articles other than n whose forward path passes through n
Upstream(f, n) == {m \in DOMAIN f \ {n} : \E k \in 1..MaxNodes : After(f, m, k) = n}

C8_EmptyInputUsedAsGiven ==
  (prog = "distance" /\ arg.given /\ DOMAIN arg.map = {} /\ pc # "start") =>
    /\ loads = 0
    /\ DOMAIN edges = {}
    /\ pc = "indexed" => DOMAIN reverse_edges = {}
    /\ pc # "ZeroDivisionError"

\* C9 as stated: when Philosophy is not a key of the forward map, the map
\* compute_distances returns is empty.
C9_EmptyWhenTargetAbsent ==
  (DistancesReturned /\ Philosophy \notin DOMAIN edges) => DOMAIN distances = {}

\* C9 as amended: when Philosophy is not a key of the forward map
\* compute_distances works on, the map it returns holds Philosophy at
\* distance 0 and besides it exactly the articles with a forward path to
\* Philosophy, each at its number of hops.
C9_TargetAbsentDistances ==
  (DistancesReturned /\ Philosophy \notin DOMAIN edges) =>
    /\ Philosophy \in DOMAIN distances
    /\ distances[Philosophy] = 0
    /\ DOMAIN distances = {n \in Titles : HasPath(edges, n)}
    /\ \A n \in DOMAIN distances : distances[n] = Hops(edges, n)

C9_Witness ==
  /\ DistancesReturned
  /\ Philosophy \notin DOMAIN edges
  /\ \E n \in DOMAIN distances : distances[n] = 2

\* C10: once get_reverse_edges has returned, for all keys a and b of the
\* forward map, b is in reverse_edges[a] exactly if the forward map takes b
\* to a.
C10_ReverseIffForward ==
  pc # "start" =>
    \A a, b \in DOMAIN GivenForward :
      (b \in Get(reverse_edges, a, {})) <=> (GivenForward[b] = a)

C10_Witness ==
  /\ pc = "indexed"
  /\ arg.given
  /\ \E a \in DOMAIN arg.map :
       /\ Cardinality(Get(reverse_edges, a, {})) >= 2
       /\ a \in Get(reverse_edges, a, {})

\* the articles of a forward map: its keys and the successors they name
Nodes(f) == DOMAIN f \cup ({f[k] : k \in DOMAIN f} \ {NoLink})

\* the index as get_reverse_edges builds it from the edges in use
IndexAsBuilt == AddReverse(edges, DOMAIN edges, EmptyDict)

\* C11: while and after compute_distances and the heat passes run, the
\* reverse index has the key set and the predecessor sets
\* get_reverse_edges returned: a lookup of an article without predecessors
\* adds no entry.
C11_ReverseIndexNotMutated ==
  pc \in {"bfs", "tree", "cycle", "done"} => reverse_edges = IndexAsBuilt

\* C12: the heat map returned has an entry for every article that is a key
\* or a successor in the forward map, isolated articles included.
C12_HeatCoversEveryNode ==
  HeatReturned => Nodes(edges) \subseteq DOMAIN hmap

\* the step that returns the heat map adds exactly 1 to every terminating
\* node and leaves every other entry as it is
PlusOneStep ==
  (prog = "heat" /\ pc = "cycle" /\ pc' = "done") =>
    /\ \A n \in terminating_nodes :
         n \in DOMAIN hmap' /\ hmap'[n] = Get(hmap, n, 0) + 1
    /\ \A n \in (Titles \cup {NoLink}) \ terminating_nodes :
         /\ n \in DOMAIN hmap' <=> n \in DOMAIN hmap
         /\ n \in DOMAIN hmap => hmap'[n] = hmap[n]

\* in the heat map returned, an article no other article points at has
\* heat 1 when it is a terminating node and heat 0 when it is not
NoPredecessorHeat ==
  HeatReturned =>
    \A n \in Nodes(edges) :
      PredecessorsOf(edges, n) \ {n} = {} =>
        Get(hmap, n, 0) = IF n \in terminating_nodes THEN 1 ELSE 0

ScenarioA == (2 :> 3) @@ (3 :> 4) @@ (4 :> 3)

\* C14: for the forward map {A->B, B->C, C->B}, whatever the order of the
\* keys, the terminating nodes are B and C, heat(A) = 0 and heat(B) =
\* heat(C) = 2.
C14_ScenarioA ==
  (HeatReturned /\ edges = ScenarioA) =>
    /\ terminating_nodes = {3, 4}
    /\ Get(hmap, 2, 0) = 0
    /\ Get(hmap, 3, 0) = 2
    /\ Get(hmap, 4, 0) = 2

\* Scenario B with X = 2, Y = 3
ScenarioB == (2 :> 3) @@ (3 :> NoLink)

ScenarioC == (2 :> Philosophy) @@ (3 :> 2) @@ (4 :> Philosophy)

\* C16: for the forward map {A->Target, B->A, C->Target}, of which Target
\* is not a key, the distance map returned holds Target at 0, A at 1, B at
\* 2 and C at 1, and no entry for any other article.
C16_ScenarioC ==
  (DistancesReturned /\ edges = ScenarioC) =>
    distances = (Philosophy :> 0) @@ (2 :> 1) @@ (3 :> 2) @@ (4 :> 1)

C16_Witness ==
  DistancesReturned /\ edges = ScenarioC /\ Get(distances, 3, -1) = 2

\* C17 as stated: every article with a distance d > 0 has a predecessor
\* (an article whose forward edge points at it) with distance d - 1.
C17_PredecessorOneCloser ==
  DistancesReturned =>
    \A n \in DOMAIN distances :
      distances[n] > 0 =>
        \E p \in PredecessorsOf(edges, n) :
          p \in DOMAIN distances /\ distances[p] = distances[n] - 1

\* C17 as amended: every article other than Philosophy with a distance
\* d > 0 has a successor (the article its forward edge points at), which
\* is Philosophy when d = 1 and an article with distance d - 1 when d > 1.
C17_SuccessorOneCloser ==
  DistancesReturned =>
    \A n \in DOMAIN distances \ {Philosophy} :
      distances[n] > 0 =>
        /\ n \in DOMAIN edges
        /\ IF distances[n] = 1
           THEN edges[n] = Philosophy
           ELSE /\ edges[n] \in DOMAIN distances \ {Philosophy}
                /\ distances[edges[n]] = distances[n] - 1

C17_Witness ==
  /\ DistancesReturned
  /\ \E n \in DOMAIN distances \ {Philosophy} :
       /\ distances[n] = 3
       /\ distances[edges[n]] = 2
  /\ distances[Philosophy] > 0

\* a step of main's query loop leaves the distance map as it is
ReadOnlyStep ==
  (prog = "main" /\ pc \in {"menu", "article"}) => distances' = distances

\* in main's query loop only Philosophy and the articles with a forward
\* path to it are keys of the distance map
OnlyReachingKeys ==
  (prog = "main" /\ pc \in {"menu", "article", "quit", "KeyError"}) =>
    \A t \in DOMAIN distances : t = Philosophy \/ HasPath(edges, t)

\* C20: once computed, the distance map is read-only: no query and no
\* navigation step of main changes its keys or values, so a title is a key
\* of it only if it has a forward path to Philosophy.
C20_DistancesReadOnly == [][ReadOnlyStep]_vars /\ []OnlyReachingKeys

\* C19: a later run of an entry point on the same forward map (the same
\* files, keys in the same order) returns the terminating nodes, the heat
\* map and the distance map the first run returned.
C19_RerunSameResults ==
  first.done =>
    /\ (prog = "heat" /\ pc \in {"tree", "cycle", "done"}) =>
         terminating_nodes = first.terminating_nodes
    /\ HeatReturned => hmap = first.hmap
    /\ DistancesReturned => distances = first.distances

C19_Witness ==
  /\ first.done
  /\ HeatReturned
  /\ Cardinality(terminating_nodes) >= 2
  /\ terminating_nodes # CycleMembers(edges) \cup DeadEnds(edges)
  /\ \E n \in DOMAIN hmap : hmap[n] >= 2

\* compute_distances run on its own from the queue qq on
RECURSIVE RunBatches(_, _, _, _)
RunBatches(qq, d, rev, sn) ==
  IF qq = <<>> THEN d
  ELSE LET ord == CHOOSE o \in SetOrders(Predecessors(Head(qq), rev)) : TRUE
           b == Batch(Head(qq), d, rev, sn, ord)
       IN RunBatches(IF b.next_articles # <<>>
                     THEN Append(Tail(qq), b.next_articles)
                     ELSE Tail(qq),
                     b.distances, b.reverse_edges, b.seen)

\* the distance map compute_distances returns when nothing runs beside it
DistancesAlone == RunBatches(<<(<<Philosophy>>)>>, EmptyDict, IndexAsBuilt, {})

\* the visiting loop of lines 118-122 run on its own
RECURSIVE TreePass(_, _, _)
TreePass(nodes, terminating, st) ==
  IF nodes = {} THEN st
  ELSE LET node == CHOOSE n \in nodes : TRUE
           r == Touch(st.reverse_edges, node, {})
       IN TreePass(nodes \ {node}, terminating,
                   VisitAll(r[node], terminating, [st EXCEPT !.reverse_edges = r]))

\* the loop over the nodes in cycles, lines 126-136, run on its own
RECURSIVE CyclePass(_, _, _, _)
CyclePass(nodes, terminating, rev, h) ==
  IF nodes = {} THEN h
  ELSE LET node == CHOOSE n \in nodes : TRUE
           c == CycleNode(edges, node, terminating, rev, h)
       IN CyclePass(nodes \ {node}, terminating, c.reverse_edges, c.hmap)

\* the heat map the passes return for the terminating nodes found when
\* nothing runs beside them
HeatAlone ==
  LET t == TreePass(terminating_nodes, terminating_nodes,
                    [hmap |-> EmptyDict, reverse_edges |-> IndexAsBuilt])
  IN AddOne(terminating_nodes,
            CyclePass(terminating_nodes, terminating_nodes, t.reverse_edges, t.hmap))

SequentialResults ==
  /\ HeatReturned => hmap = HeatAlone
  /\ DistancesReturned => distances = DistancesAlone

\* the articles in the batches still queued
Queued == UNION {Range(q[i]) : i \in 1..Len(q)}

\* a turn of the BFS loop leaves the distance of every article that is no
\* longer queued as it is
AssignedOnceStep ==
  pc = "bfs" =>
    \A n \in DOMAIN distances \ Queued :
      n \in DOMAIN distances' /\ distances'[n] = distances[n]

\* C23: during compute_distances every article is given its distance once:
\* after the batch of the level at which it was discovered has been worked
\* through, no later level overwrites or increments it, Philosophy
\* included when it is met again on its own cycle.
C23_AssignedOnce == [][AssignedOnceStep]_vars

\* the walks the classifier loop can make next
NextWalks == NextKeys(todo, keyorder) \ seen_nodes

\* the walk has stopped with a path that ends in an article it holds already
ClosesCycle(w) == ~w.raised /\ Len(w.path) # Cardinality(Range(w.path))

\* the members n_i .. n_(k-1) of the cycle a closed path ends with
CycleOnPath(path) ==
  LET k == Len(path)
      i == CHOOSE j \in 1..(k - 1) : path[j] = path[k]
  IN {path[j] : j \in i..(k - 1)}

\* C24: a walk that stops because its path closes a cycle adds to the
\* terminating nodes exactly the members of that cycle and none of the
\* articles of the path that lead into it, wherever the walk starts.
C24_CycleClosureExact ==
  pc = "classify" =>
    \A article \in NextWalks :
      LET w == Walk(edges, <<article>>, {})
      IN ClosesCycle(w) =>
           Classify(edges, article, terminating_nodes, seen_nodes).terminating_nodes
             = terminating_nodes \cup CycleOnPath(w.path)

C24_Witness ==
  /\ prog = "heat" /\ pc = "classify" /\ todo = {}
  /\ terminating_nodes = CycleMembers(edges)
  /\ \E n \in CycleMembers(edges) : edges[n] # n
  /\ \E n \in DOMAIN edges \ terminating_nodes :
       edges[n] \in seen_nodes \ terminating_nodes

\* C25: no walk appends to its path an article an earlier walk has marked
\* as seen: a walk stops as soon as the successor is in seen_nodes.
C25_WalkStopsAtSeen ==
  pc = "classify" =>
    \A article \in NextWalks :
      LET w == Walk(edges, <<article>>, {})
      IN \A j \in 2..Len(w.path) : w.path[j] \in seen_nodes => j = Len(w.path)

\* C27: once get_reverse_edges has returned, the empty string is not a key
\* of the reverse index and no article without links is in a predecessor
\* set on account of it.
C27_NoSentinelEntry ==
  pc = "indexed" =>
    /\ NoLink \notin DOMAIN reverse_edges
    /\ \A k \in DOMAIN reverse_edges : k # NoLink => reverse_edges[k] \cap DeadEnds(edges) = {}

\* the terminating nodes the classifier loop finds when it meets the keys
\* in the order ord
RECURSIVE TerminatingFor(_, _, _, _)
TerminatingFor(e, ord, terminating, sn) ==
  IF ord = <<>> THEN terminating
  ELSE IF Head(ord) \in sn THEN TerminatingFor(e, Tail(ord), terminating, sn)
  ELSE LET c == Classify(e, Head(ord), terminating, sn)
       IN TerminatingFor(e, Tail(ord), c.terminating_nodes, c.seen_nodes)

\* C29: the terminating nodes depend on the pairs of the forward map only:
\* every order of its keys gives the set this run has found.
C29_OrderIndependent ==
  (ClassificationDone /\ Dangling(edges) = {}) =>
    \A ord \in SetOrders(DOMAIN edges) :
      TerminatingFor(edges, ord, {}, {}) = terminating_nodes

\* the batch a turn of the BFS loop has appended to q
Appended == IF q' # <<>> /\ Len(q') = Len(q) THEN Range(q'[Len(q')]) ELSE {}

\* a turn of the BFS loop appends no predecessor of an article that was
\* expanded before
ExpandOnceStep ==
  pc = "bfs" => \A a \in seen : Get(reverse_edges, a, {}) \cap Appended = {}

\* C26: compute_distances comes to its end on every forward map, also
\* with Philosophy on a cycle: q becomes empty, and the predecessors of an
\* article are put into q at most once.
C26_DistancesTerminate ==
  <>(pc \in {"done", "ZeroDivisionError"}) /\ [][ExpandOnceStep]_vars

C26_Witness ==
  /\ DistancesReturned
  /\ Philosophy \in CycleMembers(edges)
  /\ edges[Philosophy] # Philosophy
  /\ Cardinality(seen) >= 3

\* the forward map is a chain of at least two articles that feeds a cycle
\* of two: every key has a successor that is a key, two articles are on a
\* cycle, and no article has two predecessors outside the cycle
ChainIntoTwoCycle(e) ==
  /\ Dangling(e) = {} /\ DeadEnds(e) = {}
  /\ Cardinality(CycleMembers(e)) = 2
  /\ \A n \in CycleMembers(e) : e[n] # n
  /\ Cardinality(DOMAIN e) >= 4
  /\ \A n \in DOMAIN e : Cardinality(PredecessorsOf(e, n) \ CycleMembers(e)) <= 1

\* C28: the tree pass does not nest a call per article of a chain: for a
\* chain of N articles feeding a cycle of two, fewer than N calls of visit
\* are open at any time.
C28_BoundedCallDepth ==
  (prog = "heat" /\ pc = "tree" /\ ChainIntoTwoCycle(edges)
     /\ terminating_nodes = CycleMembers(edges)) =>
    \A node \in terminating_nodes :
      \A child \in Get(reverse_edges, node, {}) :
        VisitDepth(child, terminating_nodes, reverse_edges) < Cardinality(DOMAIN edges) - 2

\* C21: the list get_path_to_philosophy returns for a valid title starts
\* with the title, goes from each article to its forward successor, and ends
\* with Philosophy or with an article that is on the list before; also when
\* the walk reaches an article with no links.
C21_PathEndsAtPhilosophyOrLoop ==
  (prog = "path" /\ pc = "returned") =>
    LET k == Len(target_path)
    IN /\ k >= 1
       /\ target_path[1] = target
       /\ \A i \in 1..(k - 1) : target_path[i + 1] = edges[target_path[i]]
       /\ \/ target_path[k] = Philosophy
          \/ \E j \in 1..(k - 1) : target_path[j] = target_path[k]

\* C22: in view_results, for every results list, the empty one too, and
\* from the default page 1, 1 <= page <= totalPages holds whatever p and n
\* commands are given.
C22_PageWithinTotal ==
  (prog = "menu" /\ pc = "menu") => (1 <= page /\ page <= totalPages)

\* every racer has stopped making progress: it has looped, or it stands at
\* an article with no links
RacersStopped ==
  \A i \in DOMAIN racers : has_looped[i] \/ racers[i] = NoArticlesLinked

\* C30: race goes on only until a racer is at Philosophy or all racers
\* have stopped making progress, looping or at an article with no links in
\* any mix, and then returns None.
C30_RaceEndsWhenStopped ==
  (prog = "race" /\ pc = "race" /\ RacersStopped) => ~RaceGoesOn

====
